---------------------------- MODULE Spec2Model ----------------------------
(***************************************************************************)
(* Model of main.py: the validated fields (Name, Phone, Birthday), Record, *)
(* AddressBook, the command handlers and the command loop of main().       *)
(*                                                                         *)
(* Text is modelled as a sequence of characters (one-character strings),   *)
(* so that str.isalpha, str.isdigit, len, strptime and strftime are        *)
(* computed character by character as Python computes them.                *)
(***************************************************************************)
EXTENDS Integers, Sequences, FiniteSets, TLC

(***************************************************************************)
(* Characters                                                              *)
(***************************************************************************)
\* Characters for which str.isalpha is true (the letters the inputs use).
Alpha == {"J", "o", "h", "n", "M", "a", "r", "y", "R"}

\* Characters that are decimal digits (Unicode category Nd).
DecimalDigits == {"0", "1", "2", "3", "4", "5", "6", "7", "8", "9"}

\* Characters for which str.isdigit is true although they are no decimal
\* digits: "^2" stands for U+00B2 SUPERSCRIPT TWO (category No,
\* Numeric_Type=Digit).
OtherDigits == {"^2"}

DigitVal(c) ==
    CASE c = "0" -> 0 [] c = "1" -> 1 [] c = "2" -> 2 [] c = "3" -> 3
      [] c = "4" -> 4 [] c = "5" -> 5 [] c = "6" -> 6 [] c = "7" -> 7
      [] c = "8" -> 8 [] c = "9" -> 9

DigitChar(n) ==
    CASE n = 0 -> "0" [] n = 1 -> "1" [] n = 2 -> "2" [] n = 3 -> "3"
      [] n = 4 -> "4" [] n = 5 -> "5" [] n = 6 -> "6" [] n = 7 -> "7"
      [] n = 8 -> "8" [] n = 9 -> "9"

\* str.isalpha: non-empty and every character alphabetic.
isalpha(s) == Len(s) > 0 /\ \A i \in 1..Len(s) : s[i] \in Alpha

\* str.isdigit: non-empty and every character a digit (decimal or not).
isdigit(s) == Len(s) > 0 /\ \A i \in 1..Len(s) : s[i] \in DecimalDigits \cup OtherDigits

\* The regular expression \d+ of _strptime: decimal digits only.
IsDecimalText(s) == Len(s) > 0 /\ \A i \in 1..Len(s) : s[i] \in DecimalDigits

RECURSIVE ToInt(_)
\* int() of a text of decimal digits.
ToInt(s) ==
    IF Len(s) = 0 THEN 0
    ELSE 10 * ToInt(SubSeq(s, 1, Len(s) - 1)) + DigitVal(s[Len(s)])

RECURSIVE SplitAt(_, _)
\* The fields of text s between the occurrences of the separator character.
SplitAt(s, sep) ==
    IF \A i \in 1..Len(s) : s[i] # sep THEN <<s>>
    ELSE LET k == CHOOSE i \in 1..Len(s) :
                     s[i] = sep /\ \A j \in 1..(i - 1) : s[j] # sep
         IN  <<SubSeq(s, 1, k - 1)>> \o SplitAt(SubSeq(s, k + 1, Len(s)), sep)

\* A number written with at least w digits (zero padded), as %d, %m, %Y write it.
RECURSIVE Digits(_)
Digits(n) == IF n < 10 THEN <<DigitChar(n)>> ELSE Digits(n \div 10) \o <<DigitChar(n % 10)>>

RECURSIVE PadLeft(_, _)
PadLeft(s, w) == IF Len(s) >= w THEN s ELSE PadLeft(<<"0">> \o s, w)

(***************************************************************************)
(* datetime.date                                                           *)
(***************************************************************************)
IsLeap(y) == y % 4 = 0 /\ (y % 100 # 0 \/ y % 400 = 0)

DaysInMonth(y, m) ==
    CASE m \in {1, 3, 5, 7, 8, 10, 12} -> 31
      [] m \in {4, 6, 9, 11} -> 30
      [] m = 2 -> IF IsLeap(y) THEN 29 ELSE 28

\* The dates the date constructor accepts (MINYEAR = 1, MAXYEAR = 9999).
DateValid(y, m, d) ==
    /\ y >= 1 /\ y <= 9999
    /\ m \in 1..12
    /\ d >= 1 /\ d <= DaysInMonth(y, m)

MkDate(y, m, d) == [y |-> y, m |-> m, d |-> d]

\* date.toordinal: the number of days from 01.01.0001, which is day 1.
RECURSIVE DaysBeforeMonth(_, _)
DaysBeforeMonth(y, m) ==
    IF m = 1 THEN 0 ELSE DaysBeforeMonth(y, m - 1) + DaysInMonth(y, m - 1)

DaysBeforeYear(y) ==
    LET p == y - 1 IN p * 365 + (p \div 4) - (p \div 100) + (p \div 400)

ToOrdinal(dt) == DaysBeforeYear(dt.y) + DaysBeforeMonth(dt.y, dt.m) + dt.d

\* a < b on dates.
DateLess(a, b) ==
    \/ a.y < b.y
    \/ a.y = b.y /\ a.m < b.m
    \/ a.y = b.y /\ a.m = b.m /\ a.d < b.d

\* (a - b).days
DaysBetween(a, b) == ToOrdinal(a) - ToOrdinal(b)

\* date.replace(year=y): a result [ok, date]; not ok stands for the
\* ValueError "day is out of range for month" (29 February in a common year).
ReplaceYear(dt, y) ==
    [ok |-> DateValid(y, dt.m, dt.d), date |-> MkDate(y, dt.m, dt.d)]

\* One field of the format, as _strptime's regular expression matches it:
\* %d is 3[0-1]|[1-2]\d|0[1-9]|[1-9], %m is 1[0-2]|0[1-9]|[1-9], %Y is \d\d\d\d.
MatchesDay(s)   == IsDecimalText(s) /\ Len(s) \in {1, 2} /\ ToInt(s) \in 1..31
MatchesMonth(s) == IsDecimalText(s) /\ Len(s) \in {1, 2} /\ ToInt(s) \in 1..12
MatchesYear(s)  == IsDecimalText(s) /\ Len(s) = 4

\* datetime.strptime(value, "%d.%m.%Y").date(): a result [ok, date]; not ok
\* stands for the ValueError of a text that does not match or is no date.
strptime(value) ==
    LET parts == SplitAt(value, ".")
        bad   == [ok |-> FALSE, date |-> MkDate(0, 0, 0)]
    IN  IF Len(parts) # 3 THEN bad
        ELSE IF ~(MatchesDay(parts[1]) /\ MatchesMonth(parts[2]) /\ MatchesYear(parts[3]))
        THEN bad
        ELSE LET y == ToInt(parts[3])
                 m == ToInt(parts[2])
                 d == ToInt(parts[1])
             IN  IF DateValid(y, m, d) THEN [ok |-> TRUE, date |-> MkDate(y, m, d)]
                 ELSE bad

\* date.strftime('%d.%m.%Y'): day and month on two digits, the year with
\* its century on four.
strftime(dt) ==
    PadLeft(Digits(dt.d), 2) \o <<".">> \o PadLeft(Digits(dt.m), 2) \o <<".">>
        \o PadLeft(Digits(dt.y), 4)

(***************************************************************************)
(* Exceptions and results                                                  *)
(***************************************************************************)
\* The messages of the exceptions the program raises or Python raises for it.
MsgName     == "Name must contain only alphabetic characters."
MsgPhone    == "Phone number must be 10 digits long."
MsgDate     == "Invalid date format. Use DD.MM.YYYY"
MsgAddArgs  == "Command 'add' requires both name and phone number."
MsgNoContact == "Contact not found."
MsgNoBirthday == "No birthday found for this contact."
MsgDayRange == "day is out of range for month"
MsgUnpack   == "not enough values to unpack"

\* What a call yields: exc is "" for a normal return and the exception's
\* class otherwise; msg is the returned text or str(e); val the returned
\* sequence (names, phone values); num the returned integer; none is TRUE
\* for a returned None.
Ret(msg, val) == [exc |-> "", msg |-> msg, val |-> val, num |-> 0, none |-> FALSE]
RetInt(n)     == [exc |-> "", msg |-> "", val |-> <<>>, num |-> n, none |-> FALSE]
RetNone       == [exc |-> "", msg |-> "", val |-> <<>>, num |-> 0, none |-> TRUE]
Raise(cls, msg) == [exc |-> cls, msg |-> msg, val |-> <<>>, num |-> 0, none |-> FALSE]

\* input_error: ValueError, KeyError and IndexError become the returned
\* text str(e); a normal return and every other exception pass through.
input_error(r) ==
    IF r.exc \in {"ValueError", "KeyError", "IndexError"} THEN Ret(r.msg, <<>>) ELSE r

(***************************************************************************)
(* Field, Name, Phone, Birthday                                            *)
(***************************************************************************)
\* Each constructor yields [ok, obj]; not ok stands for its ValueError.
\* Field.__init__ stores the value as given.
Field(value) == [value |-> value]

Name(value) == [ok |-> isalpha(value), obj |-> Field(value)]

\* A Phone also carries the identity of the object: Field defines no __eq__,
\* so Python compares two Phones by identity. The caller names an identity no
\* object of the list the Phone is used with has.
Phone(value, id) ==
    [ok  |-> isdigit(value) /\ Len(value) = 10,
     obj |-> [value |-> value, id |-> id]]

Birthday(value) ==
    LET p == strptime(value)
    IN  [ok |-> p.ok, obj |-> [value |-> value, date |-> p.date]]

\* a == b for two Field objects: the default object equality, identity.
ObjEq(a, b) == a.id = b.id

(***************************************************************************)
(* Record                                                                  *)
(***************************************************************************)
\* Record.__init__: [ok, obj]; birthday is <<>> for None and <<b>> otherwise.
Record(name) ==
    LET n == Name(name)
    IN  [ok  |-> n.ok,
         obj |-> [name |-> n.obj, phones |-> <<>>, birthday |-> <<>>]]

\* An identity that no Phone of the record's list has.
NewId(rec) ==
    LET ids == {rec.phones[i].id : i \in 1..Len(rec.phones)}
    IN  IF ids = {} THEN 1 ELSE 1 + (CHOOSE m \in ids : \A k \in ids : k <= m)

\* The isinstance tests of add_phone, add_birthday and add_record pass for
\* every call the program makes: their callers build the argument with the
\* class tested.
Record_add_phone(rec, phone) == [rec EXCEPT !.phones = Append(@, phone)]

\* list.remove(x): removes the first item equal to x; [ok, list], not ok
\* standing for ValueError("list.remove(x): x not in list").
list_remove(list, x) ==
    LET hits == {i \in 1..Len(list) : ObjEq(list[i], x)}
    IN  IF hits = {} THEN [ok |-> FALSE, list |-> list]
        ELSE LET k == CHOOSE i \in hits : \A j \in hits : i <= j
             IN  [ok   |-> TRUE,
                  list |-> SubSeq(list, 1, k - 1) \o SubSeq(list, k + 1, Len(list))]

Record_remove_phone(rec, phone) ==
    LET r == list_remove(rec.phones, phone)
    IN  [ok |-> r.ok, obj |-> [rec EXCEPT !.phones = r.list]]

\* Mutant of Record_add_birthday: a birthday already set is kept.
Record_add_birthday_keep_first(rec, birthday) ==
    IF rec.birthday = <<>> THEN [rec EXCEPT !.birthday = <<birthday>>] ELSE rec

Record_add_birthday(rec, birthday) == [rec EXCEPT !.birthday = <<birthday>>]

\* The next occurrence of a birthday and its distance from today, shared by
\* days_to_birthday and get_upcoming_birthdays: [ok, days], not ok standing
\* for the ValueError of date.replace.
NextBirthdayDays(bdate, today) ==
    LET first == ReplaceYear(bdate, today.y)
    IN  IF ~first.ok THEN [ok |-> FALSE, days |-> 0]
        ELSE IF DateLess(first.date, today)
        THEN LET second == ReplaceYear(first.date, today.y + 1)
             IN  IF ~second.ok THEN [ok |-> FALSE, days |-> 0]
                 ELSE [ok |-> TRUE, days |-> DaysBetween(second.date, today)]
        ELSE [ok |-> TRUE, days |-> DaysBetween(first.date, today)]

Record_days_to_birthday(rec, today) ==
    IF rec.birthday = <<>> THEN RetNone
    ELSE LET r == NextBirthdayDays(rec.birthday[1].date, today)
         IN  IF r.ok THEN RetInt(r.days) ELSE Raise("ValueError", MsgDayRange)

(***************************************************************************)
(* AddressBook: records is a dict, modelled as the sequence of its entries *)
(* [key, rec] in insertion order.                                          *)
(***************************************************************************)
\* dict.get(name): the index of the entry with that key, 0 for None.
AddressBook_find(records, name) ==
    IF \E i \in 1..Len(records) : records[i].key = name
    THEN CHOOSE i \in 1..Len(records) : records[i].key = name
    ELSE 0

\* Mutant of AddressBook_add_record: the key is record.name.value.lower().
AddressBook_add_record_lower(records, record) ==
    LET lower(c) == CASE c = "J" -> "j" [] c = "M" -> "m" [] c = "R" -> "r"
                      [] OTHER -> c
        key == [k \in 1..Len(record.name.value) |-> lower(record.name.value[k])]
        hit == {i \in 1..Len(records) : records[i].key = key}
    IN  IF hit = {} THEN Append(records, [key |-> key, rec |-> record])
        ELSE [records EXCEPT ![CHOOSE i \in hit : TRUE].rec = record]

\* self.records[record.name.value] = record: an existing key keeps its place.
AddressBook_add_record(records, record) ==
    LET key == record.name.value
        i   == AddressBook_find(records, key)
    IN  IF i = 0 THEN Append(records, [key |-> key, rec |-> record])
        ELSE [records EXCEPT ![i].rec = record]

RECURSIVE UpcomingFromInclusive(_, _, _, _)
\* Mutant of UpcomingFrom: the window is closed, days_until <= days.
UpcomingFromInclusive(records, i, days, today) ==
    IF i > Len(records) THEN Ret("", <<>>)
    ELSE LET rec  == records[i].rec
             rest == UpcomingFromInclusive(records, i + 1, days, today)
         IN  IF rec.birthday = <<>> THEN rest
             ELSE LET r == NextBirthdayDays(rec.birthday[1].date, today)
                  IN  IF ~r.ok THEN Raise("ValueError", MsgDayRange)
                      ELSE IF rest.exc # "" THEN rest
                      ELSE IF 0 <= r.days /\ r.days <= days
                      THEN Ret("", <<rec.name.value>> \o rest.val)
                      ELSE rest

RECURSIVE UpcomingFromPrepend(_, _, _, _)
\* Mutant of UpcomingFrom: upcoming.insert(0, name) for upcoming.append(name).
UpcomingFromPrepend(records, i, days, today) ==
    IF i > Len(records) THEN Ret("", <<>>)
    ELSE LET rec  == records[i].rec
             rest == UpcomingFromPrepend(records, i + 1, days, today)
         IN  IF rec.birthday = <<>> THEN rest
             ELSE LET r == NextBirthdayDays(rec.birthday[1].date, today)
                  IN  IF ~r.ok THEN Raise("ValueError", MsgDayRange)
                      ELSE IF rest.exc # "" THEN rest
                      ELSE IF 0 <= r.days /\ r.days < days
                      THEN Ret("", rest.val \o <<rec.name.value>>)
                      ELSE rest

RECURSIVE UpcomingFrom(_, _, _, _)
\* The loop of get_upcoming_birthdays from entry i on: the names appended, or
\* the ValueError that ends the loop.
UpcomingFrom(records, i, days, today) ==
    IF i > Len(records) THEN Ret("", <<>>)
    ELSE LET rec  == records[i].rec
             rest == UpcomingFrom(records, i + 1, days, today)
         IN  IF rec.birthday = <<>> THEN rest
             ELSE LET r == NextBirthdayDays(rec.birthday[1].date, today)
                  IN  IF ~r.ok THEN Raise("ValueError", MsgDayRange)
                      ELSE IF rest.exc # "" THEN rest
                      ELSE IF 0 <= r.days /\ r.days < days
                      THEN Ret("", <<rec.name.value>> \o rest.val)
                      ELSE rest

AddressBook_get_upcoming_birthdays(records, days, today) ==
    UpcomingFrom(records, 1, days, today)

(***************************************************************************)
(* Command handlers: each yields [book, r], the records afterwards and     *)
(* what the handler returns or raises (before input_error).                *)
(***************************************************************************)
\* The entry that holds the record a local variable refers to.
RefOf(records, record) == CHOOSE i \in 1..Len(records) : records[i].rec = record

\* add_contact, lines 124-126: the phone is built and appended to the record
\* the local variable `record` refers to, the one of entry i.
add_contact_phone(records, i, phone, message) ==
    IF Len(phone) = 0 THEN [book |-> records, r |-> Ret(message, <<>>)]
    ELSE LET p == Phone(phone, NewId(records[i].rec))
         IN  IF ~p.ok THEN [book |-> records, r |-> Raise("ValueError", MsgPhone)]
             ELSE [book |-> [records EXCEPT ![i].rec = Record_add_phone(@, p.obj)],
                   r    |-> Ret(message, <<>>)]

\* Mutant of add_contact: the record is built anew and stored without a
\* lookup, whether the name is in the book or not.
add_contact_always_new(args, records) ==
    IF Len(args) < 2 THEN [book |-> records, r |-> Raise("ValueError", MsgAddArgs)]
    ELSE LET rc == Record(args[1])
         IN  IF ~rc.ok THEN [book |-> records, r |-> Raise("ValueError", MsgName)]
             ELSE LET added == AddressBook_add_record(records, rc.obj)
                  IN  add_contact_phone(added, RefOf(added, rc.obj), args[2],
                                        "Contact added.")

add_contact(args, records) ==
    IF Len(args) < 2 THEN [book |-> records, r |-> Raise("ValueError", MsgAddArgs)]
    ELSE LET name  == args[1]
             phone == args[2]
             i     == AddressBook_find(records, name)
         IN  IF i = 0
             THEN LET rc    == Record(name)
                      added == AddressBook_add_record(records, rc.obj)
                  IN  IF ~rc.ok THEN [book |-> records, r |-> Raise("ValueError", MsgName)]
                      ELSE add_contact_phone(added, RefOf(added, rc.obj), phone,
                                             "Contact added.")
             ELSE add_contact_phone(records, i, phone, "Contact updated.")

add_birthday(args, records) ==
    IF Len(args) < 2 THEN [book |-> records, r |-> Raise("ValueError", MsgUnpack)]
    ELSE LET name == args[1]
             i    == AddressBook_find(records, name)
             b    == Birthday(args[2])
         IN  IF i = 0 THEN [book |-> records, r |-> Raise("ValueError", MsgNoContact)]
             ELSE IF ~b.ok THEN [book |-> records, r |-> Raise("ValueError", MsgDate)]
             ELSE [book |-> [records EXCEPT ![i].rec = Record_add_birthday(@, b.obj)],
                   r    |-> Ret("Birthday added for", <<name>>)]

show_birthday(args, records) ==
    IF Len(args) < 1 THEN [book |-> records, r |-> Raise("ValueError", MsgUnpack)]
    ELSE LET name == args[1]
             i    == AddressBook_find(records, name)
         IN  IF i = 0 \/ records[IF i = 0 THEN 1 ELSE i].rec.birthday = <<>>
             THEN [book |-> records, r |-> Raise("ValueError", MsgNoBirthday)]
             ELSE [book |-> records,
                   r    |-> Ret("birthday is",
                                <<name, strftime(records[i].rec.birthday[1].date)>>)]

\* The default of get_upcoming_birthdays' days parameter.
DefaultDays == 7

birthdays(args, records, today) ==
    LET upcoming == AddressBook_get_upcoming_birthdays(records, DefaultDays, today)
    IN  IF upcoming.exc # "" THEN [book |-> records, r |-> upcoming]
        ELSE IF upcoming.val = <<>>
        THEN [book |-> records, r |-> Ret("No upcoming birthdays.", <<>>)]
        ELSE [book |-> records, r |-> Ret("names", upcoming.val)]

\* The values of a record's phones, as `phone` and `all` join them.
PhoneValues(rec) == [i \in 1..Len(rec.phones) |-> rec.phones[i].value]

\* main, the change branch (lines 171-181): the unpacking is outside the try,
\* the try catches ValueError alone.
change(args, records) ==
    IF Len(args) < 3 THEN [book |-> records, r |-> Raise("ValueError", MsgUnpack)]
    ELSE LET name == args[1]
             i    == AddressBook_find(records, name)
         IN  IF i = 0 THEN [book |-> records, r |-> Ret(MsgNoContact, <<>>)]
             ELSE LET rec == records[i].rec
                      old == Phone(args[2], NewId(rec))
                      rem == Record_remove_phone(rec, old.obj)
                      new == Phone(args[3], NewId(rem.obj))
                  IN  IF ~old.ok THEN [book |-> records, r |-> Ret("Phone not found.", <<>>)]
                      ELSE IF ~rem.ok
                      THEN [book |-> records, r |-> Ret("Phone not found.", <<>>)]
                      ELSE IF ~new.ok
                      THEN [book |-> [records EXCEPT ![i].rec = rem.obj],
                            r    |-> Ret("Phone not found.", <<>>)]
                      ELSE [book |-> [records EXCEPT
                                         ![i].rec = Record_add_phone(rem.obj, new.obj)],
                            r    |-> Ret("Phone updated.", <<>>)]

\* main, the phone branch (lines 184-190).
phone(args, records) ==
    IF Len(args) < 1 THEN [book |-> records, r |-> Raise("ValueError", MsgUnpack)]
    ELSE LET i == AddressBook_find(records, args[1])
         IN  IF i = 0 THEN [book |-> records, r |-> Ret(MsgNoContact, <<>>)]
             ELSE [book |-> records,
                   r    |-> Ret("phones", <<args[1]>> \o PhoneValues(records[i].rec))]

(***************************************************************************)
(* Inputs                                                                  *)
(***************************************************************************)
John == <<"J", "o", "h", "n">>
Mary == <<"M", "a", "r", "y">>
R2   == <<"R", "2">>

P1     == <<"1", "2", "3", "4", "5", "6", "7", "8", "9", "0">>
P2     == <<"0", "9", "8", "7", "6", "5", "4", "3", "2", "1">>
PSup   == <<"^2", "^2", "^2", "^2", "^2", "^2", "^2", "^2", "^2", "^2">>
PShort == <<"1", "2", "3", "4", "5">>

BLeap  == <<"2", "9", ".", "0", "2", ".", "2", "0", "0", "0">>
BJan   == <<"3", ".", "1", ".", "1", "9", "9", "0">>
BDec   == <<"3", "1", ".", "1", "2", ".", "1", "9", "9", "5">>
BFeb30 == <<"3", "0", ".", "0", "2", ".", "2", "0", "2", "4">>
BIso   == <<"1", "9", "9", "0", "-", "0", "1", "-", "0", "3">>

NameToks  == {John, Mary, R2}
PhoneToks == {P1, P2, PSup, PShort}
DateToks  == {BLeap, BJan, BDec, BFeb30, BIso}

\* The dates datetime.today() returns in the runs explored.
Todays == {MkDate(2023, 12, 27), MkDate(2023, 12, 28), MkDate(2023, 12, 31),
           MkDate(2024, 1, 4), MkDate(2024, 3, 1)}

\* No date: the clock was not read in the step.
NoDate == MkDate(0, 0, 0)

\* The most phones the explored directories hold, over all records.
MaxPhones == 2
\* The largest `days` get_upcoming_birthdays is called with.
MaxDays == 7

\* The argument tokens of the lines explored, per command: too few tokens,
\* every combination of the tokens above, and a token too many.
AddArgs ==
    {<<>>, <<John>>, <<John, P1, P2>>}
        \cup {<<n, p>> : n \in NameToks, p \in PhoneToks}
ChangeArgs ==
    {<<>>, <<John>>, <<John, P1>>}
        \cup {<<n, o, p>> : n \in {John, Mary}, o \in PhoneToks, p \in PhoneToks}
PhoneArgs == {<<>>} \cup {<<n>> : n \in NameToks}
AddBirthdayArgs ==
    {<<>>, <<John>>} \cup {<<n, b>> : n \in NameToks, b \in DateToks}
ShowBirthdayArgs == {<<>>} \cup {<<n>> : n \in NameToks}

RECURSIVE TotalPhones(_)
TotalPhones(records) ==
    IF records = <<>> THEN 0
    ELSE Len(records[Len(records)].rec.phones)
            + TotalPhones(SubSeq(records, 1, Len(records) - 1))

(***************************************************************************)
(* State                                                                   *)
(***************************************************************************)
VARIABLES
    book,      \* AddressBook.records: the entries [key, rec] in insertion order
    pc,        \* "input": main's loop is at input(), about to read a line;
               \* "done": the line was handled and its result printed (or
               \* the method called returned or raised to its caller);
               \* "exited": after close/exit; "eof": input() met the end of
               \* input; "crashed": an exception left main
    command,   \* the command of the line last read, or the method last called
    args,      \* its argument tokens
    out,       \* what the last step printed, returned or raised
    today,     \* what datetime.today() returned in the last step, or NoDate
    days,      \* the days argument of the last get_upcoming_birthdays call
    hBirthday, \* history: per name, <<>> or <<text>>, the date of the latest
               \* add-birthday line given while a record of that name existed
               \* and naming a real calendar date
    hAdded     \* history: the names in the order of the add lines that
               \* introduced them

vars == <<book, pc, command, args, out, today, days, hBirthday, hAdded>>

\* The texts among DateToks that name a real calendar date, by the calendar:
\* 29.02.2000, 3.1.1990 and 31.12.1995 do; 30.02.2024 does not, and
\* 1990-01-03 is not day.month.year.
RealDateToks == {BLeap, BJan, BDec}

Init ==
    /\ book = <<>>
    /\ pc = "input"
    /\ command = ""
    /\ args = <<>>
    /\ out = Ret("Enter a command: ", <<>>)
    /\ today = NoDate
    /\ days = 0
    /\ hBirthday = [n \in NameToks |-> <<>>]
    /\ hAdded = <<>>

\* The end of a step of the loop: the result is printed and the loop goes
\* on, or the exception leaves main.
Finish(cmd, a, res, td, dy) ==
    /\ book' = res.book
    /\ command' = cmd
    /\ args' = a
    /\ out' = res.r
    /\ pc' = IF res.r.exc = "" THEN "done" ELSE "crashed"
    /\ today' = td
    /\ days' = dy

Wrapped(res) == [book |-> res.book, r |-> input_error(res.r)]

(***************************************************************************)
(* main: one action per branch of the loop                                 *)
(***************************************************************************)
\* input() raises EOFError at the end of input.
ReadEOF ==
    /\ pc = "input"
    /\ pc' = "eof"
    /\ command' = ""
    /\ args' = <<>>
    /\ out' = Raise("EOFError", "EOF when reading a line")
    /\ today' = NoDate
    /\ days' = 0
    /\ UNCHANGED <<book, hBirthday, hAdded>>

\* A line without tokens: `command, *args = user_input.split()` raises.
ReadBlank ==
    /\ pc = "input"
    /\ Finish("", <<>>, [book |-> book, r |-> Raise("ValueError", MsgUnpack)], NoDate, 0)
    /\ UNCHANGED <<hBirthday, hAdded>>

Exit(cmd) ==
    /\ pc = "input"
    /\ pc' = "exited"
    /\ command' = cmd
    /\ args' = <<>>
    /\ out' = Ret("Good bye!", <<>>)
    /\ today' = NoDate
    /\ days' = 0
    /\ UNCHANGED <<book, hBirthday, hAdded>>

Hello ==
    /\ pc = "input"
    /\ Finish("hello", <<>>, [book |-> book, r |-> Ret("How can I help you?", <<>>)],
              NoDate, 0)
    /\ UNCHANGED <<hBirthday, hAdded>>

Add(a) ==
    /\ pc = "input"
    /\ LET res == Wrapped(add_contact(a, book))
       IN  /\ TotalPhones(res.book) <= MaxPhones
           /\ Finish("add", a, res, NoDate, 0)
    /\ hAdded' = IF Len(a) >= 2 /\ isalpha(a[1])
                    /\ \A i \in 1..Len(hAdded) : hAdded[i] # a[1]
                 THEN Append(hAdded, a[1]) ELSE hAdded
    /\ UNCHANGED hBirthday

Change(a) ==
    /\ pc = "input"
    /\ Finish("change", a, change(a, book), NoDate, 0)
    /\ UNCHANGED <<hBirthday, hAdded>>

PhoneCmd(a) ==
    /\ pc = "input"
    /\ Finish("phone", a, phone(a, book), NoDate, 0)
    /\ UNCHANGED <<hBirthday, hAdded>>

\* The lines `all` prints: per record its name followed by its phones' values.
All ==
    /\ pc = "input"
    /\ Finish("all", <<>>,
              [book |-> book,
               r    |-> Ret("all", [i \in 1..Len(book) |->
                            <<book[i].rec.name.value>> \o PhoneValues(book[i].rec)])],
              NoDate, 0)
    /\ UNCHANGED <<hBirthday, hAdded>>

AddBirthday(a) ==
    /\ pc = "input"
    /\ Finish("add-birthday", a, Wrapped(add_birthday(a, book)), NoDate, 0)
    /\ hBirthday' = IF Len(a) >= 2 /\ a[2] \in RealDateToks
                       /\ \E i \in 1..Len(hAdded) : hAdded[i] = a[1]
                    THEN [hBirthday EXCEPT ![a[1]] = <<a[2]>>] ELSE hBirthday
    /\ UNCHANGED hAdded

ShowBirthday(a) ==
    /\ pc = "input"
    /\ Finish("show-birthday", a, Wrapped(show_birthday(a, book)), NoDate, 0)
    /\ UNCHANGED <<hBirthday, hAdded>>

Birthdays(td) ==
    /\ pc = "input"
    /\ Finish("birthdays", <<>>, Wrapped(birthdays(<<>>, book, td)), td, DefaultDays)
    /\ UNCHANGED <<hBirthday, hAdded>>

Invalid(cmd) ==
    /\ pc = "input"
    /\ Finish(cmd, <<>>, [book |-> book, r |-> Ret("Invalid command.", <<>>)], NoDate, 0)
    /\ UNCHANGED <<hBirthday, hAdded>>

(***************************************************************************)
(* The methods no command calls, or calls with the default alone, called   *)
(* on the book as it stands: their result goes to out, and an exception    *)
(* goes to their caller, not to main.                                      *)
(***************************************************************************)
DaysToBirthday(i, td) ==
    /\ pc = "input"
    /\ i \in 1..Len(book)
    /\ command' = "Record.days_to_birthday"
    /\ args' = <<book[i].key>>
    /\ out' = Record_days_to_birthday(book[i].rec, td)
    /\ today' = td
    /\ days' = 0
    /\ pc' = "done"
    /\ UNCHANGED <<book, hBirthday, hAdded>>

GetUpcomingBirthdays(dy, td) ==
    /\ pc = "input"
    /\ command' = "AddressBook.get_upcoming_birthdays"
    /\ args' = <<>>
    /\ out' = AddressBook_get_upcoming_birthdays(book, dy, td)
    /\ today' = td
    /\ days' = dy
    /\ pc' = "done"
    /\ UNCHANGED <<book, hBirthday, hAdded>>

\* `while True`: back to input(). The line's tokens and what was printed
\* are read no more.
Loop ==
    /\ pc = "done"
    /\ pc' = "input"
    /\ command' = ""
    /\ args' = <<>>
    /\ out' = Ret("Enter a command: ", <<>>)
    /\ today' = NoDate
    /\ days' = 0
    /\ UNCHANGED <<book, hBirthday, hAdded>>

Next ==
    \/ Loop
    \/ ReadEOF
    \/ ReadBlank
    \/ \E cmd \in {"close", "exit"} : Exit(cmd)
    \/ Hello
    \/ \E a \in AddArgs : Add(a)
    \/ \E a \in ChangeArgs : Change(a)
    \/ \E a \in PhoneArgs : PhoneCmd(a)
    \/ All
    \/ \E a \in AddBirthdayArgs : AddBirthday(a)
    \/ \E a \in ShowBirthdayArgs : ShowBirthday(a)
    \/ \E td \in Todays : Birthdays(td)
    \/ \E cmd \in {"foo"} : Invalid(cmd)
    \/ \E i \in 1..Len(book), td \in Todays : DaysToBirthday(i, td)
    \/ \E dy \in 0..MaxDays, td \in Todays : GetUpcomingBirthdays(dy, td)

Spec == Init /\ [][Next]_vars

(***************************************************************************)
(* Vocabulary of the properties                                            *)
(***************************************************************************)
\* A text of exactly 10 decimal digits.
TenDecimalDigits(s) == Len(s) = 10 /\ \A i \in 1..Len(s) : s[i] \in DecimalDigits

\* The entries of the directory whose record carries the name n.
EntriesNamed(records, n) == {i \in 1..Len(records) : records[i].rec.name.value = n}
HasName(records, n) == EntriesNamed(records, n) # {}
RecNamed(records, n) == records[CHOOSE i \in EntriesNamed(records, n) : TRUE].rec

\* vals with its first entry equal to old replaced by new.
ReplaceFirst(vals, old, new) ==
    LET k == CHOOSE i \in 1..Len(vals) :
                 vals[i] = old /\ \A j \in 1..(i - 1) : vals[j] # old
    IN  [i \in 1..Len(vals) |-> IF i = k THEN new ELSE vals[i]]

\* The day after a date, by the calendar.
NextDay(dt) ==
    IF dt.d < DaysInMonth(dt.y, dt.m) THEN MkDate(dt.y, dt.m, dt.d + 1)
    ELSE IF dt.m < 12 THEN MkDate(dt.y, dt.m + 1, 1)
    ELSE MkDate(dt.y + 1, 1, 1)

RECURSIVE PlusDays(_, _)
\* The n-th day after a date: within the month, or counted on from the day
\* after the month's last.
PlusDays(dt, n) ==
    LET left == DaysInMonth(dt.y, dt.m) - dt.d
    IN  IF n <= left THEN MkDate(dt.y, dt.m, dt.d + n)
        ELSE PlusDays(NextDay(MkDate(dt.y, dt.m, dt.d + left)), n - left - 1)

\* The birthday's month and day fall on the n-th day after td.
FallsOn(bdate, td, n) ==
    LET x == PlusDays(td, n) IN x.m = bdate.m /\ x.d = bdate.d

\* The names in seq, in the order seq has them, that belong to set.
RECURSIVE Filter(_, _)
Filter(seq, set) ==
    IF seq = <<>> THEN <<>>
    ELSE (IF seq[1] \in set THEN <<seq[1]>> ELSE <<>>) \o Filter(Tail(seq), set)

Range(seq) == {seq[i] : i \in 1..Len(seq)}

(***************************************************************************)
(* C1 (as claimed): `change name oldPhone newPhone`, for a contact whose   *)
(* phones contain oldPhone and a newPhone of 10 decimal digits, puts       *)
(* newPhone in the place of the first entry equal to oldPhone and leaves   *)
(* the other entries as they are; "Phone not found." is not reported.      *)
(***************************************************************************)
C1_ChangeReplacesFirst ==
    [][ ( /\ pc = "input" /\ command' = "change" /\ Len(args') >= 3
          /\ HasName(book, args'[1])
          /\ args'[2] \in Range(PhoneValues(RecNamed(book, args'[1])))
          /\ TenDecimalDigits(args'[3]) )
        => ( /\ out'.msg # "Phone not found."
             /\ HasName(book', args'[1])
             /\ PhoneValues(RecNamed(book', args'[1]))
                  = ReplaceFirst(PhoneValues(RecNamed(book, args'[1])),
                                 args'[2], args'[3]) ) ]_vars

(***************************************************************************)
(* C2 (as claimed): every line read leaves the loop running, unless its    *)
(* command is close or exit or the input has ended: no exception ends the  *)
(* process.                                                                *)
(***************************************************************************)
C2_NoLineIsFatal ==
    [][ pc = "input"
        => \/ pc' = "done"
           \/ pc' = "exited" /\ command' \in {"close", "exit"}
           \/ pc' = "eof" ]_vars

(***************************************************************************)
(* C3: `add name phone` with a valid name and phone answers "Contact       *)
(* added." exactly when no record has that name beforehand and "Contact    *)
(* updated." otherwise; the phone is appended to that record's phones, its *)
(* earlier phones and birthday are kept, every other record is unchanged   *)
(* and exactly one record has that name.                                   *)
(***************************************************************************)
C3_AddAppends ==
    [][ ( /\ pc = "input" /\ command' = "add" /\ Len(args') >= 2
          /\ isalpha(args'[1]) /\ TenDecimalDigits(args'[2]) )
        => LET n   == args'[1]
               was == HasName(book, n)
           IN  /\ out'.exc = ""
               /\ out'.msg = IF was THEN "Contact updated." ELSE "Contact added."
               /\ Cardinality(EntriesNamed(book', n)) = 1
               /\ PhoneValues(RecNamed(book', n))
                    = (IF was THEN PhoneValues(RecNamed(book, n)) ELSE <<>>)
                          \o <<args'[2]>>
               /\ RecNamed(book', n).birthday
                    = IF was THEN RecNamed(book, n).birthday ELSE <<>>
               /\ Len(book') = Len(book) + (IF was THEN 0 ELSE 1)
               /\ \A i \in 1..Len(book) :
                      book[i].rec.name.value # n => book'[i] = book[i] ]_vars

\* `add John 0987654321` after `add John 1234567890`: one John, two phones.
C3_Witness ==
    /\ command = "add" /\ args = <<John, P2>>
    /\ out.msg = "Contact updated."
    /\ Cardinality(EntriesNamed(book, John)) = 1
    /\ PhoneValues(RecNamed(book, John)) = <<P1, P2>>

\* No birthday of the directory is a 29 February.
NoLeapDayBirthday(records) ==
    \A i \in 1..Len(records) :
        records[i].rec.birthday # <<>>
            => ~(records[i].rec.birthday[1].date.m = 2
                 /\ records[i].rec.birthday[1].date.d = 29)

\* The names of the records whose birthday's month and day fall on one of
\* the n days from td on.
DueNames(records, n, td) ==
    {records[i].rec.name.value : i \in
        {j \in 1..Len(records) :
            /\ records[j].rec.birthday # <<>>
            /\ \E d \in 0..(n - 1) : FallsOn(records[j].rec.birthday[1].date, td, d)}}

(***************************************************************************)
(* C4: when no birthday of the directory is a 29 February,                 *)
(* get_upcoming_birthdays(days) returns, without raising, exactly the      *)
(* names of the records that have a birthday whose month and day fall on   *)
(* today + d for some 0 <= d < days (today included, today + days not, the *)
(* year's end crossed); `birthdays` does so for days = 7.                  *)
(***************************************************************************)
C4_UpcomingWindow ==
    ( /\ command \in {"AddressBook.get_upcoming_birthdays", "birthdays"}
      /\ NoLeapDayBirthday(book) )
    => /\ out.exc = ""
       /\ command = "birthdays" => days = 7
       /\ Range(out.val) = DueNames(book, days, today)

\* On 28.12.2023 with days = 7: a birthday on 3 January (6 days ahead, in
\* the next year) is listed.
C4_Witness ==
    /\ command = "AddressBook.get_upcoming_birthdays"
    /\ today = MkDate(2023, 12, 28) /\ days = 7
    /\ NoLeapDayBirthday(book)
    /\ HasName(book, John)
    /\ RecNamed(book, John).birthday # <<>>
    /\ RecNamed(book, John).birthday[1].date = MkDate(1990, 1, 3)
    /\ John \in Range(out.val)

(***************************************************************************)
(* C5 (as claimed): days_to_birthday returns None when no birthday is set, *)
(* and otherwise, for every birthday (29 February included), an integer d  *)
(* with 0 <= d < 366 such that the birthday's month and day fall on        *)
(* today + d, and d = 0 when they are today's.                             *)
(***************************************************************************)
C5_DaysToBirthday ==
    command = "Record.days_to_birthday"
    => LET rec == RecNamed(book, args[1])
       IN  IF rec.birthday = <<>> THEN out.exc = "" /\ out.none
           ELSE /\ out.exc = "" /\ ~out.none
                /\ 0 <= out.num /\ out.num < 366
                /\ FallsOn(rec.birthday[1].date, today, out.num)
                /\ FallsOn(rec.birthday[1].date, today, 0) => out.num = 0

(***************************************************************************)
(* C6 (as claimed): `add name phone` with a valid name not yet in the      *)
(* directory and a phone that is not exactly 10 decimal digits returns the *)
(* validation message, and leaves a record of that name with no phone and  *)
(* no birthday in the directory, every other record unchanged; an `add` of *)
(* a valid phone to a name in the directory reports "Contact updated.".    *)
(***************************************************************************)
C6_NoRollback ==
    [][ /\ ( /\ pc = "input" /\ command' = "add" /\ Len(args') >= 2
             /\ isalpha(args'[1]) /\ ~HasName(book, args'[1])
             /\ ~TenDecimalDigits(args'[2]) )
           => /\ out'.msg = MsgPhone
              /\ Cardinality(EntriesNamed(book', args'[1])) = 1
              /\ RecNamed(book', args'[1]).phones = <<>>
              /\ RecNamed(book', args'[1]).birthday = <<>>
              /\ Len(book') = Len(book) + 1
              /\ \A i \in 1..Len(book) : book'[i] = book[i]
        /\ ( /\ pc = "input" /\ command' = "add" /\ Len(args') >= 2
             /\ HasName(book, args'[1]) /\ TenDecimalDigits(args'[2]) )
           => out'.msg = "Contact updated." ]_vars

\* The dates of RealDateToks written as DD.MM.YYYY.
AsDDMMYYYY(text) ==
    CASE text = BLeap -> <<"2", "9", ".", "0", "2", ".", "2", "0", "0", "0">>
      [] text = BJan  -> <<"0", "3", ".", "0", "1", ".", "1", "9", "9", "0">>
      [] text = BDec  -> <<"3", "1", ".", "1", "2", ".", "1", "9", "9", "5">>

\* What show-birthday answers is what the history of add-birthday lines says.
C7_ShownIsLatestGiven ==
    ( command = "show-birthday" /\ Len(args) >= 1 )
    => IF hBirthday[args[1]] = <<>>
       THEN out.exc = "" /\ out.msg = MsgNoBirthday
       ELSE out = Ret("birthday is", <<args[1], AsDDMMYYYY(hBirthday[args[1]][1])>>)

\* An add-birthday step is refused, the directory unchanged, for an unknown
\* contact or a text that names no date, and accepted otherwise.
C7_FailedAddBirthdayKeepsBook ==
    ( /\ pc = "input" /\ command' = "add-birthday" /\ Len(args') >= 2 )
    => /\ out'.exc = ""
       /\ ~HasName(book, args'[1]) => out'.msg = MsgNoContact /\ book' = book
       /\ (HasName(book, args'[1]) /\ args'[2] \notin RealDateToks)
            => out'.msg = MsgDate /\ book' = book
       /\ (HasName(book, args'[1]) /\ args'[2] \in RealDateToks)
            => out' = Ret("Birthday added for", <<args'[1]>>)

(***************************************************************************)
(* C7: `show-birthday name` returns, as DD.MM.YYYY, the date of the latest *)
(* `add-birthday name date` given while a record of that name existed and  *)
(* naming a real calendar date, and "No birthday found for this contact."  *)
(* when there was none; an add-birthday for an unknown contact ("Contact   *)
(* not found.") or with an invalid date (the validation message) leaves    *)
(* the directory unchanged.                                                *)
(***************************************************************************)
C7_ShowBirthday == []C7_ShownIsLatestGiven /\ [][C7_FailedAddBirthdayKeepsBook]_vars

\* The birthday given as 3.1.1990 is shown as 03.01.1990.
C7_Witness ==
    /\ command = "show-birthday" /\ args = <<John>>
    /\ hBirthday[John] = <<BJan>>
    /\ out.msg = "birthday is"
    /\ out.val[2] = <<"0", "3", ".", "0", "1", ".", "1", "9", "9", "0">>

(***************************************************************************)
(* C8: every entry of the directory is stored under the value of its       *)
(* record's name, no two entries carry the same name, and find(name) is    *)
(* None or an entry whose record's name is name.                           *)
(***************************************************************************)
C8_KeyIsName ==
    /\ \A i \in 1..Len(book) : book[i].key = book[i].rec.name.value
    /\ \A i, j \in 1..Len(book) :
           book[i].rec.name.value = book[j].rec.name.value => i = j
    /\ \A n \in NameToks :
           LET i == AddressBook_find(book, n)
           IN  IF HasName(book, n) THEN i # 0 /\ book[i].rec.name.value = n
               ELSE i = 0

C8_Witness ==
    /\ Len(book) = 2
    /\ AddressBook_find(book, Mary) = 1
    /\ AddressBook_find(book, John) = 2

(***************************************************************************)
(* C9 (as claimed): every name stored is a non-empty text of alphabetic    *)
(* characters, every phone stored is exactly 10 decimal digits and every   *)
(* birthday stored is a real calendar date.                                *)
(***************************************************************************)
C9_StoredFieldsValid ==
    \A i \in 1..Len(book) :
        LET rec == book[i].rec
        IN  /\ Len(rec.name.value) > 0
            /\ \A k \in 1..Len(rec.name.value) : rec.name.value[k] \in Alpha
            /\ \A k \in 1..Len(rec.phones) : TenDecimalDigits(rec.phones[k].value)
            /\ rec.birthday # <<>>
                 => /\ rec.birthday[1].value \in RealDateToks
                    /\ DateValid(rec.birthday[1].date.y, rec.birthday[1].date.m,
                                 rec.birthday[1].date.d)

(***************************************************************************)
(* C10: the names get_upcoming_birthdays returns (and `birthdays` prints)  *)
(* stand in the order in which their contacts were first added, each once. *)
(***************************************************************************)
C10_InsertionOrder ==
    ( /\ command \in {"AddressBook.get_upcoming_birthdays", "birthdays"}
      /\ out.exc = "" )
    => out.val = Filter(hAdded, Range(out.val))

\* Mary was added before John; her birthday is 6 days ahead and his 3: she
\* is listed first.
C10_Witness ==
    /\ command = "birthdays" /\ today = MkDate(2023, 12, 28)
    /\ hAdded = <<Mary, John>>
    /\ HasName(book, Mary) /\ HasName(book, John)
    /\ RecNamed(book, Mary).birthday # <<>> /\ RecNamed(book, John).birthday # <<>>
    /\ RecNamed(book, Mary).birthday[1].date = MkDate(1990, 1, 3)
    /\ RecNamed(book, John).birthday[1].date = MkDate(1995, 12, 31)
    /\ out.val = <<Mary, John>>
=============================================================================
